---- MODULE Spec2Model ----
(***************************************************************************)
(* Quantum-distance k-means (app/quantum_clustering.py) together with the  *)
(* feature-map encoder (app/feature_map.py) and the fidelity distance      *)
(* (app/quantum_distance.py).                                              *)
(*                                                                         *)
(* Numbers.  Python floats are modelled in fixed point:                    *)
(*   - a coordinate c stands for the real value c * (pi/12) / GridUnit;    *)
(*   - a complex amplitude <<re, im>> stands for (re + i*im) / Scale;      *)
(*   - a fidelity or distance f stands for f / One, One = Scale^4.         *)
(* Angles handed to cos/sin are rounded to multiples of pi/48 (TableStep). *)
(***************************************************************************)
EXTENDS Integers, Sequences, FiniteSets, TLC

(***************************************************************************)
(* Bounds of the model.                                                    *)
(***************************************************************************)
MaxN == 3          \* datasets hold 0..MaxN points
MaxIters == 2      \* max_iters ranges over 0..MaxIters
MaxSeed == 1       \* random_state ranges over 0..MaxSeed
MaxVecLen == 2     \* vectors handed to fidelity have 1..MaxVecLen entries
MaxPointLen == 3   \* points handed to encode_to_statevector have 0..MaxPointLen entries

(***************************************************************************)
(* State.                                                                  *)
(*   X, n_clusters, max_iters, kind, random_state: the arguments of the    *)
(*     call (kind names the feature_map_builder);                          *)
(*   rng, feature_map, centers, labels, data_states, center_states,        *)
(*     new_centers: the locals of quantum_kmeans; iter counts the loop     *)
(*     iterations entered;                                                 *)
(*   pc: where the call stands; error: the exception that ended it;        *)
(*     result: what it returned;                                           *)
(*   call, first: the caller runs the same call twice and keeps the first  *)
(*     outcome;                                                            *)
(*   f_*: the argument and result of one encode_to_statevector call;       *)
(*   d_*: the arguments and results of one fidelity / quantum_distance     *)
(*     call.                                                               *)
(***************************************************************************)
VARIABLES X, n_clusters, max_iters, kind, random_state,
          rng, feature_map, centers, labels, iter,
          data_states, center_states, new_centers,
          pc, error, result, call, first,
          f_kind, f_point, f_out, f_pc,
          d_s1, d_s2, d_fid, d_dist, d_pc

inputs == <<X, n_clusters, max_iters, kind, random_state>>
locals == <<rng, feature_map, centers, labels, iter,
            data_states, center_states, new_centers>>
control == <<pc, error, result>>
caller == <<call, first>>
kmeansVars == <<inputs, locals, control, caller>>
encVars == <<f_kind, f_point, f_out, f_pc>>
distVars == <<d_s1, d_s2, d_fid, d_dist, d_pc>>
vars == <<kmeansVars, encVars, distVars>>

(***************************************************************************)
(* Fixed-point units.                                                      *)
(***************************************************************************)
Scale == 100
GridUnit == 100000
One == Scale * Scale * Scale * Scale

Abs(a) == IF a < 0 THEN 0 - a ELSE a

RECURSIVE SumSeq(_)
SumSeq(s) == IF s = <<>> THEN 0 ELSE Head(s) + SumSeq(Tail(s))

(***************************************************************************)
(* cos and sin on the grid of multiples of pi/48; 96 steps are a full      *)
(* turn.  The table holds round(Scale * cos(j*pi/48)) for the first        *)
(* quarter turn.                                                           *)
(***************************************************************************)
CosTable == <<100, 100, 99, 98, 97, 95, 92, 90, 87, 83, 79, 75, 71,
              66, 61, 56, 50, 44, 38, 32, 26, 20, 13, 7, 0>>

Cos(j) ==
    LET r == j % 96
    IN  IF r <= 24 THEN CosTable[r + 1]
        ELSE IF r <= 48 THEN 0 - CosTable[48 - r + 1]
        ELSE IF r <= 72 THEN 0 - CosTable[r - 48 + 1]
        ELSE CosTable[96 - r + 1]

Sin(j) == Cos(j - 24)

(***************************************************************************)
(* Complex arithmetic on amplitudes <<re, im>>.                            *)
(***************************************************************************)
CMul(a, b) == << (a[1] * b[1] - a[2] * b[2]) \div Scale,
                 (a[1] * b[2] + a[2] * b[1]) \div Scale >>

CExp(j) == << Cos(j), Sin(j) >>

(***************************************************************************)
(* The rotation angle of a coordinate, in steps of pi/12.                  *)
(***************************************************************************)
AngleIndex(c) == (2 * c + GridUnit) \div (2 * GridUnit)

(***************************************************************************)
(* Feature maps (app/feature_map.py).  A feature map is the circuit's kind *)
(* and its list of free parameters; both builders are called without       *)
(* arguments, so num_qubits = 2 and reps = 2.                              *)
(***************************************************************************)
NumQubits == 2
Reps == 2

build_angle_encoding_map == [kind |-> "angle", parameters |-> NumQubits]

build_zz_feature_map == [kind |-> "zz", parameters |-> NumQubits]

FEATURE_MAPS == {"angle", "zz"}

feature_map_builder(k) ==
    IF k = "angle" THEN build_angle_encoding_map ELSE build_zz_feature_map

(* The grid indices the coordinates of the model reach (0 .. pi). *)
Grid == 0..12

(* ry(x) then rz(x/2) on |0>:  <<cos(x/2) e^{-ix/4}, sin(x/2) e^{ix/4}>>,  *)
(* for x = q * pi/12.                                                      *)
AngleQubit(q) ==
    << CMul(<<Cos(2 * q), 0>>, CExp(0 - q)),
       CMul(<<Sin(2 * q), 0>>, CExp(q)) >>

(* Amplitude of basis state b (0..3), qubit 0 the low bit. *)
AngleCircuit(q0, q1) ==
    [b \in 1..4 |-> CMul(AngleQubit(q0)[((b - 1) % 2) + 1],
                         AngleQubit(q1)[((b - 1) \div 2) + 1])]

(* The Hadamard layer on two qubits. *)
HSign(a, b) ==
    LET both0 == (a % 2) * (b % 2)
        both1 == (a \div 2) * (b \div 2)
    IN  IF (both0 + both1) % 2 = 0 THEN 1 ELSE 0 - 1

Hadamard2(v) ==
    [b \in 1..4 |->
        << SumSeq([a \in 1..4 |-> HSign(a - 1, b - 1) * v[a][1]]) \div 2,
           SumSeq([a \in 1..4 |-> HSign(a - 1, b - 1) * v[a][2]]) \div 2 >>]

(* 2 * (pi - x0) * (pi - x1) in steps of pi/48, with pi = 355/113. *)
ZZAngle(q0, q1) == (710 * (12 - q0) * (12 - q1)) \div 339

(* P(2 x0) on qubit 0, P(2 x1) on qubit 1, CX P(2 phi) CX on the pair. *)
ZZPhases(v, q0, q1) ==
    [b \in 1..4 |->
        LET b0 == (b - 1) % 2
            b1 == (b - 1) \div 2
            parity == (b0 + b1) % 2
        IN  CMul(v[b], CExp(8 * q0 * b0 + 8 * q1 * b1 + ZZAngle(q0, q1) * parity))]

RECURSIVE ZZLayers(_, _, _, _)
ZZLayers(v, q0, q1, reps) ==
    IF reps = 0 THEN v
    ELSE ZZLayers(ZZPhases(Hadamard2(v), q0, q1), q0, q1, reps - 1)

ZZCircuit(q0, q1) ==
    ZZLayers(<< <<Scale, 0>>, <<0, 0>>, <<0, 0>>, <<0, 0>> >>, q0, q1, Reps)

(* Statevector.from_instruction, tabulated over the grid (merging with the  *)
(* empty function makes TLC build each table once instead of on every     *)
(* lookup).                                                                *)
AngleTable == [q \in Grid \X Grid |-> AngleCircuit(q[1], q[2])] @@ <<>>

ZZTable == [q \in Grid \X Grid |-> ZZCircuit(q[1], q[2])] @@ <<>>

AngleState(x0, x1) == AngleTable[<<AngleIndex(x0), AngleIndex(x1)>>]

ZZState(x0, x1) == ZZTable[<<AngleIndex(x0), AngleIndex(x1)>>]

(***************************************************************************)
(* encode_to_statevector: zip(parameters, x) binds the first               *)
(* min(len(parameters), len(x)) parameters; simulating a circuit that      *)
(* still has a free parameter raises, otherwise the statevector is built   *)
(* from the values that were bound.                                        *)
(***************************************************************************)
encode_to_statevector(fmap, x) ==
    LET bound == IF Len(x) < fmap.parameters THEN Len(x)
                 ELSE fmap.parameters
    IN  IF bound < fmap.parameters
        THEN [ok |-> FALSE, error |-> "UnboundParameters", state |-> <<>>]
        ELSE [ok |-> TRUE, error |-> "none",
              state |-> IF fmap.kind = "angle"
                        THEN AngleState(x[1], x[2])
                        ELSE ZZState(x[1], x[2])]

(***************************************************************************)
(* Fidelity and distance (app/quantum_distance.py).                        *)
(***************************************************************************)
(* np.vdot(state1, state2) = sum of conj(state1[i]) * state2[i] *)
vdot(state1, state2) ==
    << SumSeq([i \in 1..Len(state1) |->
                 state1[i][1] * state2[i][1] + state1[i][2] * state2[i][2]]),
       SumSeq([i \in 1..Len(state1) |->
                 state1[i][1] * state2[i][2] - state1[i][2] * state2[i][1]]) >>

(* Mutant: the square of the overlap without its absolute value. *)
fidelity_NoAbs(state1, state2) ==
    LET overlap == vdot(state1, state2)
    IN  overlap[1] * overlap[1] - overlap[2] * overlap[2]

fidelity(state1, state2) ==
    LET overlap == vdot(state1, state2)
    IN  overlap[1] * overlap[1] + overlap[2] * overlap[2]

quantum_distance(state1, state2) == One - fidelity(state1, state2)

Norm2(state) == SumSeq([i \in 1..Len(state) |->
                         state[i][1] * state[i][1] + state[i][2] * state[i][2]])

(***************************************************************************)
(* The seeded generator (np.random.default_rng).  The generator state is a *)
(* number; seeding, stepping and the value drawn are functions of it: a    *)
(* small congruential generator stands for numpy's PCG64.                  *)
(***************************************************************************)
(* Mutant: the generator is seeded from ambient entropy, not from the seed. *)
default_rng_Unseeded(seed) == (11 * (seed + call) + 5) % 64

default_rng(seed) == (11 * seed + 5) % 64

RngNext(s) == (5 * s + 3) % 64

RngValue(s, high) == (s \div 4) % high

RECURSIVE RngAfterDraws(_, _)
RngAfterDraws(s, draws) == IF draws = 0 THEN s ELSE RngAfterDraws(RngNext(s), draws - 1)

(* rng.integers(0, high): one value in 0..high-1, and the generator after. *)
rng_integers(s, high) == [value |-> RngValue(s, high), rng |-> RngNext(s)]

RemoveAt(seq, i) == [j \in 1..(Len(seq) - 1) |-> IF j < i THEN seq[j] ELSE seq[j + 1]]

RECURSIVE DrawDistinct(_, _, _)
DrawDistinct(s, pool, size) ==
    IF size = 0 THEN [indices |-> <<>>, rng |-> s]
    ELSE LET at == RngValue(s, Len(pool)) + 1
             rest == DrawDistinct(RngNext(s), RemoveAt(pool, at), size - 1)
         IN  [indices |-> <<pool[at]>> \o rest.indices, rng |-> rest.rng]

(* Mutant: replace=True, which draws any number of indices. *)
rng_choice_Replace(s, pop_size, size) ==
    IF pop_size <= 0 /\ size # 0
    THEN [ok |-> FALSE, msg |-> "a must be a positive integer unless no samples are taken",
          indices |-> <<>>, rng |-> s]
    ELSE IF size < 0
    THEN [ok |-> FALSE, msg |-> "negative dimensions are not allowed",
          indices |-> <<>>, rng |-> s]
    ELSE [ok |-> TRUE, msg |-> "none",
          indices |-> [i \in 1..size |-> RngValue(RngAfterDraws(s, i - 1), pop_size)],
          rng |-> RngAfterDraws(s, size)]

(* rng.choice(pop_size, size=size, replace=False) *)
rng_choice(s, pop_size, size) ==
    IF pop_size <= 0 /\ size # 0
    THEN [ok |-> FALSE, msg |-> "a must be a positive integer unless no samples are taken",
          indices |-> <<>>, rng |-> s]
    ELSE IF size > pop_size
    THEN [ok |-> FALSE, msg |-> "Cannot take a larger sample than population when replace is False",
          indices |-> <<>>, rng |-> s]
    ELSE IF size < 0
    THEN [ok |-> FALSE, msg |-> "negative dimensions are not allowed",
          indices |-> <<>>, rng |-> s]
    ELSE LET d == DrawDistinct(s, [i \in 1..pop_size |-> i - 1], size)
         IN  [ok |-> TRUE, msg |-> "none", indices |-> d.indices, rng |-> d.rng]

(***************************************************************************)
(* Helpers of quantum_kmeans (app/quantum_clustering.py).                  *)
(***************************************************************************)
NoError == [type |-> "none", msg |-> "none", site |-> "none"]

NoResult == [returned |-> FALSE, labels |-> <<>>, centers |-> <<>>]

(* _encode_points: the statevectors of a batch, or the first error raised. *)
encode_points(fmap, points) ==
    LET enc == [i \in 1..Len(points) |-> encode_to_statevector(fmap, points[i])]
        bad == {i \in 1..Len(points) : ~enc[i].ok}
    IN  IF bad # {}
        THEN [ok |-> FALSE, error |-> enc[CHOOSE i \in bad : \A j \in bad : i <= j].error,
              states |-> <<>>]
        ELSE [ok |-> TRUE, error |-> "none", states |-> [i \in 1..Len(points) |-> enc[i].state]]

(* _initialize_centers: X[rng.choice(len(X), size=n_clusters, replace=False)] *)
initialize_centers(points, k, s) ==
    LET c == rng_choice(s, Len(points), k)
    IN  [ok |-> c.ok, msg |-> c.msg, rng |-> c.rng,
         centers |-> [i \in 1..Len(c.indices) |-> points[c.indices[i] + 1]]]

(* Mutant: the last index of a least entry. *)
argmin_Last(distances) ==
    (CHOOSE i \in 1..Len(distances) :
        /\ \A j \in 1..Len(distances) : distances[i] <= distances[j]
        /\ \A j \in (i + 1)..Len(distances) : distances[j] > distances[i]) - 1

(* np.argmin: the first index (from 0) of a least entry; raises on []. *)
argmin(distances) ==
    (CHOOSE i \in 1..Len(distances) :
        /\ \A j \in 1..Len(distances) : distances[i] <= distances[j]
        /\ \A j \in 1..(i - 1) : distances[j] > distances[i]) - 1

(* Mutant: labels counted from 1. *)
AssignPoint_OneBased(state, c_states) ==
    argmin([c \in 1..Len(c_states) |-> quantum_distance(state, c_states[c])]) + 1

(* The assignment step for one point. *)
AssignPoint(state, c_states) ==
    argmin([c \in 1..Len(c_states) |-> quantum_distance(state, c_states[c])])

(* X[labels == k] *)
ClusterMembers(lab, k) == {i \in 1..Len(lab) : lab[i] = k}

(* cluster_points.mean(axis=0) *)
Mean(points, members, dim) ==
    [c \in 1..dim |->
        SumSeq([i \in 1..Len(points) |-> IF i \in members THEN points[i][c] ELSE 0])
            \div Cardinality(members)]

Dim(points) == IF points = <<>> THEN 0 ELSE Len(points[1])

(* Mutant: an empty cluster keeps the zeros of np.zeros_like. *)
RECURSIVE UpdateFrom_KeepZeros(_, _, _, _, _)
UpdateFrom_KeepZeros(points, lab, k, n_k, s) ==
    IF k >= n_k THEN [centers |-> <<>>, rng |-> s]
    ELSE LET members == ClusterMembers(lab, k)
             here == IF members = {} THEN [c \in 1..Dim(points) |-> 0]
                     ELSE Mean(points, members, Dim(points))
             rest == UpdateFrom_KeepZeros(points, lab, k + 1, n_k, s)
         IN  [centers |-> <<here>> \o rest.centers, rng |-> rest.rng]

(* The update step for clusters k, k+1, ..., n_clusters-1, in this order.  *)
RECURSIVE UpdateFrom(_, _, _, _, _)
UpdateFrom(points, lab, k, n_k, s) ==
    IF k >= n_k THEN [centers |-> <<>>, rng |-> s]
    ELSE LET members == ClusterMembers(lab, k)
             draw == rng_integers(s, Len(points))
             here == IF members = {} THEN points[draw.value + 1]
                     ELSE Mean(points, members, Dim(points))
             rest == UpdateFrom(points, lab, k + 1, n_k,
                                IF members = {} THEN draw.rng ELSE s)
         IN  [centers |-> <<here>> \o rest.centers, rng |-> rest.rng]

(* np.allclose(a, b): |a - b| <= atol + rtol * |b| for every entry, with   *)
(* rtol = 1e-5 and atol = 1e-8 (0.00382 coordinate units).                 *)
RtolInverse == 100000
AtolTimesRtolInverse == 382

IsClose(a, b) == Abs(a - b) <= (AtolTimesRtolInverse + Abs(b)) \div RtolInverse

allclose(a, b) ==
    \A k \in 1..Len(a) : \A c \in 1..Len(a[k]) : IsClose(a[k][c], b[k][c])

(***************************************************************************)
(* Inputs of the model.                                                    *)
(***************************************************************************)
SeqsUpTo(S, m) == UNION {[1..l -> S] : l \in 0..m}

Points1 == { <<4 * GridUnit>> }
Points2 == { <<0, 0>>, <<12 * GridUnit, 0>>, <<12 * GridUnit + 4, 0>>,
             <<4 * GridUnit, 12 * GridUnit>> }
Points3 == { <<4 * GridUnit, 12 * GridUnit, 6 * GridUnit>> }

DataSets == SeqsUpTo(Points1, MaxN) \cup SeqsUpTo(Points2, MaxN) \cup SeqsUpTo(Points3, MaxN)

KmeansIdle ==
    /\ X = <<>> /\ n_clusters = 0 /\ max_iters = 0 /\ kind = "angle" /\ random_state = 0
    /\ rng = 0 /\ feature_map = build_angle_encoding_map
    /\ centers = <<>> /\ labels = <<>> /\ iter = 0
    /\ data_states = <<>> /\ center_states = <<>> /\ new_centers = <<>>
    /\ pc = "idle" /\ error = NoError /\ result = NoResult
    /\ call = 0 /\ first = [pc |-> "none", error |-> NoError, result |-> NoResult, rng |-> 0]

EncIdle == f_kind = "angle" /\ f_point = <<>> /\ f_out = <<>> /\ f_pc = "idle"

DistIdle == d_s1 = <<>> /\ d_s2 = <<>> /\ d_fid = 0 /\ d_dist = 0 /\ d_pc = "idle"

Init ==
    /\ X \in DataSets
    /\ n_clusters \in (0 - 1)..(MaxN + 1)
    /\ max_iters \in 0..MaxIters
    /\ kind \in FEATURE_MAPS
    /\ random_state \in 0..MaxSeed
    /\ rng = 0 /\ feature_map = build_angle_encoding_map
    /\ centers = <<>> /\ labels = <<>> /\ iter = 0
    /\ data_states = <<>> /\ center_states = <<>> /\ new_centers = <<>>
    /\ pc = "start" /\ error = NoError /\ result = NoResult
    /\ call = 1 /\ first = [pc |-> "none", error |-> NoError, result |-> NoResult, rng |-> 0]
    /\ EncIdle /\ DistIdle

(***************************************************************************)
(* quantum_kmeans, lines 56-60: seed the generator, build the feature map, *)
(* draw the initial centers, zero the labels.                              *)
(***************************************************************************)
Raise(type, msg, site) ==
    /\ pc' = "failed"
    /\ error' = [type |-> type, msg |-> msg, site |-> site]
    /\ result' = NoResult

Initialize ==
    /\ pc = "start"
    /\ LET s == default_rng(random_state)
           init == initialize_centers(X, n_clusters, s)
       IN  /\ feature_map' = feature_map_builder(kind)
           /\ IF init.ok
              THEN /\ rng' = init.rng
                   /\ centers' = init.centers
                   /\ labels' = [i \in 1..Len(X) |-> 0]
                   /\ pc' = "loop"
                   /\ UNCHANGED <<error, result>>
              ELSE /\ rng' = s
                   /\ Raise("ValueError", init.msg, "initialize_centers")
                   /\ UNCHANGED <<centers, labels>>
    /\ UNCHANGED <<inputs, iter, data_states, center_states, new_centers, caller,
                   encVars, distVars>>

(* Lines 62-65: enter an iteration and encode the points and the centers. *)
Encode ==
    /\ pc = "loop"
    /\ iter < max_iters
    /\ iter' = iter + 1
    /\ LET ds == encode_points(feature_map, X)
           cs == encode_points(feature_map, centers)
       IN  IF ~ds.ok
           THEN /\ Raise("TypeError", ds.error, "encode_to_statevector")
                /\ UNCHANGED <<data_states, center_states>>
           ELSE IF ~cs.ok
           THEN /\ Raise("TypeError", cs.error, "encode_to_statevector")
                /\ UNCHANGED <<data_states, center_states>>
           ELSE /\ data_states' = ds.states
                /\ center_states' = cs.states
                /\ pc' = "assign"
                /\ UNCHANGED <<error, result>>
    /\ UNCHANGED <<inputs, rng, feature_map, centers, labels, new_centers, caller,
                   encVars, distVars>>

(* Lines 68-70: the assignment step. *)
Assign ==
    /\ pc = "assign"
    /\ IF data_states # <<>> /\ center_states = <<>>
       THEN /\ Raise("ValueError", "attempt to get argmin of an empty sequence", "argmin")
            /\ UNCHANGED labels
       ELSE /\ labels' = [i \in 1..Len(data_states) |-> AssignPoint(data_states[i], center_states)]
            /\ pc' = "update"
            /\ UNCHANGED <<error, result>>
    /\ UNCHANGED <<inputs, rng, feature_map, centers, iter, data_states, center_states,
                   new_centers, caller, encVars, distVars>>

(* Lines 73-80: the update step. *)
Update ==
    /\ pc = "update"
    /\ LET u == UpdateFrom(X, labels, 0, n_clusters, rng)
       IN  /\ new_centers' = u.centers
           /\ rng' = u.rng
    /\ pc' = "check"
    /\ UNCHANGED <<inputs, feature_map, centers, labels, iter, data_states, center_states,
                   error, result, caller, encVars, distVars>>

(* Mutant: exact comparison, np.array_equal(new_centers, centers). *)
Converged_Exact == new_centers = centers

(* Line 82: np.allclose(new_centers, centers) *)
Converged == allclose(new_centers, centers)

(* Mutant: break before centers = new_centers. *)
Check_StaleCenters ==
    /\ pc = "check"
    /\ IF Converged
       THEN /\ pc' = "done"
            /\ result' = [returned |-> TRUE, labels |-> labels, centers |-> centers]
            /\ UNCHANGED centers
       ELSE /\ pc' = "loop"
            /\ centers' = new_centers
            /\ UNCHANGED result
    /\ UNCHANGED <<inputs, rng, feature_map, labels, iter, data_states, center_states,
                   new_centers, error, caller, encVars, distVars>>

(* Lines 82-86 and, on break, line 88. *)
Check ==
    /\ pc = "check"
    /\ centers' = new_centers
    /\ IF Converged
       THEN /\ pc' = "done"
            /\ result' = [returned |-> TRUE, labels |-> labels, centers |-> new_centers]
       ELSE /\ pc' = "loop"
            /\ UNCHANGED result
    /\ UNCHANGED <<inputs, rng, feature_map, labels, iter, data_states, center_states,
                   new_centers, error, caller, encVars, distVars>>

(* Line 62 with the range exhausted, then line 88. *)
Return ==
    /\ pc = "loop"
    /\ iter >= max_iters
    /\ pc' = "done"
    /\ result' = [returned |-> TRUE, labels |-> labels, centers |-> centers]
    /\ UNCHANGED <<inputs, locals, error, caller, encVars, distVars>>

(* The caller keeps the outcome and makes the same call again. *)
CallAgain ==
    /\ call = 1
    /\ pc \in {"done", "failed"}
    /\ first' = [pc |-> pc, error |-> error, result |-> result, rng |-> rng]
    /\ call' = 2
    /\ rng' = 0 /\ feature_map' = build_angle_encoding_map
    /\ centers' = <<>> /\ labels' = <<>> /\ iter' = 0
    /\ data_states' = <<>> /\ center_states' = <<>> /\ new_centers' = <<>>
    /\ pc' = "start" /\ error' = NoError /\ result' = NoResult
    /\ UNCHANGED <<inputs, encVars, distVars>>

Next ==
    \/ Initialize
    \/ Encode
    \/ Assign
    \/ Update
    \/ Check
    \/ Return
    \/ CallAgain

Spec == Init /\ [][Next]_vars

FairSpec == Spec /\ WF_vars(Next)

(***************************************************************************)
(* One call of encode_to_statevector on a point of any length.             *)
(***************************************************************************)
Coords == {0, 4 * GridUnit, 12 * GridUnit}

EncInit ==
    /\ f_kind \in FEATURE_MAPS
    /\ f_point \in SeqsUpTo(Coords, MaxPointLen)
    /\ f_out = <<>>
    /\ f_pc = "call"
    /\ KmeansIdle /\ DistIdle

EncodeCall ==
    /\ f_pc = "call"
    /\ LET r == encode_to_statevector(feature_map_builder(f_kind), f_point)
       IN  /\ f_out' = r.state
           /\ f_pc' = IF r.ok THEN "returned" ELSE "raised"
    /\ UNCHANGED <<f_kind, f_point, kmeansVars, distVars>>

EncSpec == EncInit /\ [][EncodeCall]_vars

(***************************************************************************)
(* One call of fidelity and quantum_distance on two vectors of the same    *)
(* length, unit-norm or not.                                               *)
(***************************************************************************)
Amplitudes == { <<0, 0>>, <<100, 0>>, <<60, 0>>, <<0, 80>>, <<0 - 80, 0>>, <<120, 0>> }

Vectors(l) == [1..l -> Amplitudes]

DistInit ==
    /\ \E l \in 1..MaxVecLen : d_s1 \in Vectors(l) /\ d_s2 \in Vectors(l)
    /\ d_fid = 0 /\ d_dist = 0
    /\ d_pc = "call"
    /\ KmeansIdle /\ EncIdle

DistanceCall ==
    /\ d_pc = "call"
    /\ d_fid' = fidelity(d_s1, d_s2)
    /\ d_dist' = quantum_distance(d_s1, d_s2)
    /\ d_pc' = "returned"
    /\ UNCHANGED <<d_s1, d_s2, kmeansVars, encVars>>

DistSpec == DistInit /\ [][DistanceCall]_vars

(***************************************************************************)
(* Properties.                                                             *)
(***************************************************************************)
N == Len(X)

ValidCount == N >= 1 /\ 1 <= n_clusters /\ n_clusters <= N

(* Every point has as many entries as the feature map has parameters. *)
DimMatches == \A i \in 1..N : Len(X[i]) = feature_map_builder(kind).parameters

Returned == pc = "done" /\ result.returned

OutputContract ==
    /\ Len(result.labels) = N
    /\ \A i \in 1..N : result.labels[i] >= 0 /\ result.labels[i] < n_clusters
    /\ Len(result.centers) = n_clusters
    /\ \A k \in 1..n_clusters : Len(result.centers[k]) = Dim(X)

(* C1 as stated: for every dataset of n >= 1 points of any dimension d,    *)
(* every 1 <= k <= n, every max_iters >= 0, every seed and either feature  *)
(* map, quantum_kmeans returns n labels in [0, k) and k centers of         *)
(* dimension d.                                                            *)
C1_ReturnsForEveryDimension ==
    ValidCount => /\ pc # "failed"
                  /\ (pc = "done" => result.returned /\ OutputContract)

(* C1, amended: the same, for the datasets whose dimension d equals the    *)
(* number of parameters of the feature map.                                *)
C1_OutputContract ==
    (ValidCount /\ DimMatches) =>
        /\ pc # "failed"
        /\ (pc = "done" => result.returned /\ OutputContract)

C1_Witness ==
    /\ Returned /\ ValidCount /\ DimMatches
    /\ kind = "zz" /\ iter >= 2 /\ n_clusters >= 2
    /\ \E i \in 1..N : result.labels[i] = n_clusters - 1

(* C2: with n_clusters > n the call fails with the ValueError that         *)
(* rng.choice raises inside _initialize_centers (the code's                *)
(* InvalidClusterCount), before any iteration, and returns nothing.        *)
C2_TooManyClustersFails ==
    (n_clusters > N) =>
        /\ pc \in {"start", "failed"}
        /\ iter = 0
        /\ result = NoResult
        /\ labels = <<>> /\ centers = <<>>
        /\ (pc = "failed" => error.type = "ValueError" /\ error.site = "initialize_centers")

C2_Witness ==
    /\ pc = "failed" /\ n_clusters > N /\ N >= 1 /\ max_iters >= 1
    /\ error.msg = "Cannot take a larger sample than population when replace is False"

(* C3: encode_to_statevector raises whenever the point's length differs    *)
(* from the number of free parameters, shorter or longer.                  *)
C3_LengthMismatchRaises ==
    (f_pc \in {"returned", "raised"}
        /\ Len(f_point) # feature_map_builder(f_kind).parameters)
    => f_pc = "raised"

(* C4: with an empty dataset the call fails and returns nothing, for every *)
(* n_clusters and max_iters.                                               *)
C4_EmptyDatasetFails == (N = 0) => (pc # "done" /\ ~result.returned)

(* C5: with n_clusters <= 0 the call fails and returns nothing, for every  *)
(* dataset and max_iters.                                                  *)
C5_NonPositiveClustersFails == (n_clusters <= 0) => (pc # "done" /\ ~result.returned)

InitialDraw == initialize_centers(X, n_clusters, default_rng(random_state))

C7_BoundedForAllVectors ==
    d_pc = "returned" =>
        /\ 0 <= d_fid /\ d_fid <= One
        /\ 0 <= d_dist /\ d_dist <= One

UnitNorm(v) == Norm2(v) = Scale * Scale

(* C7, amended: for all equal-length vectors fidelity >= 0 and             *)
(* quantum_distance = 1 - fidelity <= 1; when both vectors have unit norm, *)
(* fidelity <= 1 and quantum_distance >= 0 as well.                        *)
C7_BoundedForUnitVectors ==
    d_pc = "returned" =>
        /\ d_dist = One - d_fid
        /\ 0 <= d_fid /\ d_dist <= One
        /\ (UnitNorm(d_s1) /\ UnitNorm(d_s2)) => (d_fid <= One /\ 0 <= d_dist)

(* Two different unit vectors with a complex overlap strictly inside (0,1). *)
C7_Witness ==
    /\ d_pc = "returned"
    /\ UnitNorm(d_s1) /\ UnitNorm(d_s2) /\ d_s1 # d_s2
    /\ vdot(d_s1, d_s2)[2] # 0
    /\ 0 < d_fid /\ d_fid < One
    /\ 0 < d_dist /\ d_dist < One

(* C8: the loop enters at most max_iters iterations, each made of one      *)
(* encode, one assignment, one update and one convergence check; it stops  *)
(* at the first check that finds the centers close and otherwise when      *)
(* max_iters iterations are done.  Every step lowers a bound on the steps  *)
(* left, so every run ends; on valid input it ends by returning.           *)
C8_LoopStep ==
    /\ (pc = "loop" /\ iter < max_iters) => (iter' = iter + 1 /\ pc' \in {"assign", "failed"})
    /\ (pc = "loop" /\ iter >= max_iters) => (iter' = iter /\ pc' = "done")
    /\ (pc = "assign") => (iter' = iter /\ pc' \in {"update", "failed"})
    /\ (pc = "update") => (iter' = iter /\ pc' = "check")
    /\ (pc = "check" /\ allclose(new_centers, centers)) => (iter' = iter /\ pc' = "done")
    /\ (pc = "check" /\ ~allclose(new_centers, centers)) => (iter' = iter /\ pc' = "loop")

(* A bound on the steps the two calls can still take. *)
StepsLeft ==
    (2 - call) * (4 * max_iters + 4)
    + (CASE pc = "start"  -> 4 * max_iters + 3
         [] pc = "loop"   -> 4 * (max_iters - iter) + 2
         [] pc = "assign" -> 4 * (max_iters - iter) + 5
         [] pc = "update" -> 4 * (max_iters - iter) + 4
         [] pc = "check"  -> 4 * (max_iters - iter) + 3
         [] OTHER         -> 1)

Finished == call = 2 /\ pc \in {"done", "failed"}

C8_Progress ==
    /\ iter <= max_iters
    /\ StepsLeft >= 1
    /\ (Finished /\ ValidCount /\ DimMatches) => Returned

C8_Terminates ==
    /\ []C8_Progress
    /\ [][C8_LoopStep /\ StepsLeft' < StepsLeft]_vars

(* Until both calls have ended a step is possible. *)
C8_NeverStuck == (~Finished) => ENABLED Next

(* Termination as a liveness property of the fair specification. *)
C8_EventuallyReturns == (ValidCount /\ DimMatches) => <>(Finished /\ Returned)

(* The budget runs out: the last of at least two checks found the centers  *)
(* moved, after an update that resampled an empty cluster.                 *)
C8_Witness ==
    /\ pc = "loop" /\ iter = max_iters /\ max_iters >= 2
    /\ ValidCount /\ DimMatches
    /\ rng # InitialDraw.rng

(* C9: when the check of an iteration succeeds, the call returns the       *)
(* centers of that iteration's update and the labels of that iteration's   *)
(* assignment (the assignment of the points to the centers the iteration   *)
(* started with), and nothing is assigned or updated afterwards.           *)
C9_CheckStep ==
    /\ (pc = "check" /\ allclose(new_centers, centers)) =>
          /\ pc' = "done"
          /\ result' = [returned |-> TRUE, labels |-> labels, centers |-> new_centers]
          /\ iter' = iter
    /\ (pc = "done") =>
          \/ (pc' = "done" /\ result' = result)
          \/ (call = 1 /\ call' = 2 /\ first'.result = result)

C9_LabelsOfThisIteration ==
    pc = "check" =>
        labels = [i \in 1..N |->
                    AssignPoint(encode_to_statevector(feature_map, X[i]).state,
                                encode_points(feature_map, centers).states)]

C9_ReturnsConvergedIteration ==
    /\ []C9_LabelsOfThisIteration
    /\ [][C9_CheckStep]_vars

(* The first check succeeded on centers that differ from the initial ones. *)
C9_Witness ==
    /\ Returned /\ iter = 1 /\ max_iters >= 2
    /\ ValidCount /\ DimMatches
    /\ result.centers # InitialDraw.centers
    /\ allclose(result.centers, InitialDraw.centers)

EmptyClusters(upto) == {j \in 0..(upto - 1) : ClusterMembers(labels, j) = {}}

IsMeanOf(center, members) ==
    \A c \in 1..Dim(X) :
        LET sum == SumSeq([i \in 1..N |-> IF i \in members THEN X[i][c] ELSE 0])
        IN  /\ center[c] * Cardinality(members) <= sum
            /\ sum < (center[c] + 1) * Cardinality(members)

(* C10: the update step always completes; a cluster with no point gets the *)
(* dataset point at the next index drawn from the seeded generator (one    *)
(* draw per empty cluster, in cluster order), a cluster with points gets   *)
(* their coordinate-wise mean.                                             *)
C10_UpdateStep ==
    (pc = "update") =>
        /\ pc' = "check"
        /\ Len(new_centers') = n_clusters
        /\ rng' = RngAfterDraws(rng, Cardinality(EmptyClusters(n_clusters)))
        /\ \A k \in 0..(n_clusters - 1) :
              IF ClusterMembers(labels, k) = {}
              THEN new_centers'[k + 1] =
                       X[RngValue(RngAfterDraws(rng, Cardinality(EmptyClusters(k))), N) + 1]
              ELSE IsMeanOf(new_centers'[k + 1], ClusterMembers(labels, k))

C10_EmptyClusterResampled == [][C10_UpdateStep]_vars

(* An update has given one empty cluster a dataset point and another       *)
(* cluster the mean of several points.                                     *)
C10_Witness ==
    /\ pc = "check"
    /\ \E k \in 0..(n_clusters - 1) :
          /\ ClusterMembers(labels, k) = {}
          /\ \E i \in 1..N : new_centers[k + 1] = X[i]
    /\ \E k \in 0..(n_clusters - 1) :
          /\ Cardinality(ClusterMembers(labels, k)) >= 2
          /\ \A i \in 1..N : new_centers[k + 1] # X[i]

(***************************************************************************)
(* C11.  After the assignment step of every iteration, each point's label  *)
(* is the index of a center whose quantum distance to the point is minimal *)
(* among the current centers, and when several centers are at the same     *)
(* minimal distance the label is the lowest such index.                    *)
(***************************************************************************)
DistanceTo(i, c) == quantum_distance(data_states[i], center_states[c + 1])

NearestCenters(i) ==
    {c \in 0..(Len(center_states) - 1) :
        \A other \in 0..(Len(center_states) - 1) : DistanceTo(i, c) <= DistanceTo(i, other)}

C11_AssignStep ==
    (pc = "assign" /\ (center_states # <<>> \/ data_states = <<>>)) =>
        /\ pc' = "update"
        /\ Len(labels') = Len(data_states)
        /\ \A i \in 1..Len(data_states) :
              /\ labels'[i] \in NearestCenters(i)
              /\ \A c \in NearestCenters(i) : labels'[i] <= c

C11_LabelIsLowestNearestCenter == [][C11_AssignStep]_vars

(* An assignment has labelled a point that has two nearest centers, both   *)
(* nearer than center 0, and a point whose nearest center is center 0.     *)
C11_Witness ==
    /\ pc = "update"
    /\ \E i \in 1..Len(data_states) :
          /\ Cardinality(NearestCenters(i)) >= 2
          /\ 0 \notin NearestCenters(i)
          /\ labels[i] >= 1
    /\ \E i \in 1..Len(data_states) : labels[i] = 0

====
